---- MODULE Spec2Model ----
(***************************************************************************)
(* Funding Request & Investment Ledger of PestVid.                         *)
(*                                                                         *)
(* The state is the content of the MongoDB collections the funding and     *)
(* investment routes work on (FundingRequest, Investment, Transaction,     *)
(* Notification; Listing and Purchase for the purchase route) plus, for    *)
(* every request-handling worker, the await its                            *)
(* handler is suspended at and the documents it holds in memory.           *)
(*                                                                         *)
(* A handler is cut where another worker can observe or disturb it: an     *)
(* action is a database call together with the synchronous code around it. *)
(* Writes to the Notification collection, which no handler reads, and      *)
(* reads of data that never changes are folded into the neighbouring call. *)
(* A database write may throw; reads are taken not to.  A call that is     *)
(* rejected before its first write changes nothing: it is a stuttering     *)
(* step, and the status it answers is given by the ...Outcome operators.   *)
(*                                                                         *)
(* Amounts are whole units; the domains below keep amount * roi / 100      *)
(* integral.  generateSimulatedTxHash is taken to be collision free.       *)
(* Where the outcome depends on the Mongoose release the server runs with, *)
(* every outcome is a step of the model.                                   *)
(***************************************************************************)
EXTENDS Integers, Sequences, FiniteSets, TLC

\* ---------------------------------------------------------------- bounds
MaxRequests == 2        \* FundingRequest documents ever created
MaxInvestments == 2     \* contributions ever pushed
MaxPayouts == 2         \* "payout" ledger entries ever written
MaxFailures == 1        \* database writes that throw
MaxCalls == 4           \* calls that get past their checks

\* ------------------------------------------------------ program constants
ProximityMs == 5000     \* investorEntry lookup window (ms)

Workers == {1, 2}
Farmers == {"f1"}
Investors == {"i1", "i2"}
Users == Farmers \cup Investors
Cids == {"c1"}
RequestAmounts == {2, 4}
InvestAmounts == {2}
Rois == {50}
ProgressInputs == {0, 50, 100, 101}
NoteInputs == {"", "note"}
StatusInputs == {"", "completed", "cancelled"}

Undefined == -1
NoHash == [prefix |-> "none", n |-> 0]
Deleted == [deleted |-> TRUE]
NoLocals == [op |-> "none"]
NoCall == [op |-> "none", code |-> 0, done |-> FALSE]
Proceed == 0

VARIABLES
    requests,       \* FundingRequest collection: _id -> document or Deleted
    investments,    \* Investment collection: _id -> document
    transactions,   \* Transaction collection (txHash is unique)
    notifications,  \* Notification collection
    hashCount,      \* hashes handed out by generateSimulatedTxHash, per prefix
    failures,       \* database writes that have thrown so far
    pc,             \* per worker: the await it is suspended at
    loc,            \* per worker: the handler's local variables
    calls,          \* calls that got past their checks so far
    last,           \* the call that returned in the latest step, with its HTTP status
    listings,       \* Listing collection: _id -> document
    purchases       \* Purchase collection: _id -> document

vars == <<requests, investments, transactions, notifications, hashCount,
          failures, pc, loc, last, calls, listings, purchases>>
db == <<requests, investments, transactions, notifications>>
\* The marketplace collections, which the funding and investment routes leave alone.
market == <<listings, purchases>>

\* ---------------------------------------------------------------- helpers
role(u) == IF u \in Farmers THEN "farmer" ELSE "investor"

\* The Video collection: every cid is a video of farmer f1.
videoOwner(cid) == "f1"

Present(p) == p \in 1..Len(requests) /\ requests[p] # Deleted

RECURSIVE SumAmounts(_)
SumAmounts(s) == IF s = <<>> THEN 0 ELSE Head(s).amount + SumAmounts(Tail(s))

generateSimulatedTxHash(prefix) == [prefix |-> prefix, n |-> hashCount[prefix] + 1]

CanFail == failures < MaxFailures

Busy(kinds) == Cardinality({w \in Workers : pc[w] \in kinds})

\* res.status(code).json(...): the handler returns.  `done` marks a handler that
\* ran up to the preparation of its response.
Reply(w, l, code) ==
    /\ pc' = [pc EXCEPT ![w] = "idle"]
    /\ calls' = calls
    /\ loc' = [loc EXCEPT ![w] = NoLocals]
    /\ last' = l @@ [code |-> code, done |-> FALSE]

\* `await doc.populate(a).populate(b)`: the first populate returns the document
\* without populating it (Mongoose 5) or a promise, which has no populate
\* (Mongoose 6 and later), so the chain does nothing or throws a TypeError.
PopulateChain == {"unpopulated", "throws"}

\* The response of the investment routes: the populate chain, then farmerName,
\* which reads farmerWallet.name.split of a farmerWallet that is not populated.
respondInvestment(inv, ok) ==
    {IF c = "throws" \/ inv.farmerWallet # "none" THEN 500 ELSE ok : c \in PopulateChain}

\* The response of PUT /api/funding-requests/:id: the populate chain.
respondRequest(ok) == {IF c = "throws" THEN 500 ELSE ok : c \in PopulateChain}

\* The handler prepares its response and returns.
Respond(w, l, codes) == \E code \in codes : Reply(w, l @@ [done |-> TRUE], code)

Finish(w, code) == Reply(w, [op |-> loc[w].op], code)

Goto(w, label, l) ==
    /\ pc' = [pc EXCEPT ![w] = label]
    /\ calls' = IF pc[w] = "idle" THEN calls + 1 ELSE calls
    /\ loc' = [loc EXCEPT ![w] = l]
    /\ last' = NoCall

\* A database write that throws: the handler's catch block answers 500.
Throw(w) ==
    /\ CanFail
    /\ failures' = failures + 1
    /\ Finish(w, 500)

\* A Notification write inside its own try/catch: a failure is logged only.
Notify(ns) ==
    \/ /\ notifications' = notifications \cup ns
       /\ UNCHANGED failures
    \/ /\ CanFail
       /\ failures' = failures + 1
       /\ \E sent \in SUBSET ns : sent # ns /\ notifications' = notifications \cup sent

\* fundingRequestPreSave with a hook that derives the status only while the
\* document is not in a terminal state.
fundingRequestPreSaveKeepsTerminal(doc) ==
    LET clamped == IF doc.fundedAmount > doc.amount
                   THEN [doc EXCEPT !.fundedAmount = doc.amount] ELSE doc
    IN IF doc.status \in {"completed", "cancelled"} THEN clamped
       ELSE [clamped EXCEPT !.status =
                IF clamped.fundedAmount >= clamped.amount THEN "funded"
                ELSE IF clamped.fundedAmount > 0 THEN "partially_funded"
                ELSE "pending"]

\* fundingRequestSchema.pre('save'): clamp fundedAmount, derive status.
fundingRequestPreSave(doc) ==
    LET clamped == IF doc.fundedAmount > doc.amount
                   THEN [doc EXCEPT !.fundedAmount = doc.amount] ELSE doc
    IN [clamped EXCEPT !.status =
            IF clamped.fundedAmount >= clamped.amount THEN "funded"
            ELSE IF clamped.fundedAmount > 0 THEN "partially_funded"
            ELSE "pending"]

\* The `updates` sub-schema: id is required on every entry.
updatesValid(doc) == \A i \in 1..Len(doc.updates) : doc.updates[i].id # ""

\* A path the handler set and the hook set back to the value read stays marked
\* modified, or not, with the Mongoose release.
RevertedStaysModified == BOOLEAN

\* document.save() of a loaded FundingRequest, after validation: the pre-save
\* hook, then a $set of the modified paths.
saveRequest(stored, read, local, kept) ==
    LET hooked == fundingRequestPreSave(local)
        statusModified == \/ hooked.status # read.status
                          \/ kept /\ local.status # read.status
    IN [stored EXCEPT
           !.fundedAmount = IF hooked.fundedAmount # read.fundedAmount
                            THEN hooked.fundedAmount ELSE @,
           !.status = IF statusModified THEN hooked.status ELSE @,
           !.updates = IF hooked.updates # read.updates THEN hooked.updates ELSE @]

Init ==
    /\ requests = <<>>
    /\ investments = <<>>
    /\ transactions = {}
    /\ notifications = {}
    /\ hashCount = [sim_invest |-> 0, sim_payout |-> 0]
    /\ failures = 0
    /\ pc = [w \in Workers |-> "idle"]
    /\ loc = [w \in Workers |-> NoLocals]
    /\ last = NoCall
    /\ calls = 0
    /\ listings = <<>>
    /\ purchases = <<>>

\* Time.  An embedded investor entry carries its age, new Date() minus its
\* investmentDate, for that is all the code reads of the clock; Tick lets the
\* proximity window pass, for the stored entries and for the copies in memory.
aged(investors) ==
    [i \in DOMAIN investors |-> [investors[i] EXCEPT !.age = ProximityMs]]

Tick ==
    /\ UNCHANGED market
    /\ \E p \in 1..Len(requests) :
          /\ requests[p] # Deleted
          /\ \E i \in DOMAIN requests[p].investors : requests[p].investors[i].age = 0
    /\ requests' = [p \in DOMAIN requests |->
                       IF requests[p] = Deleted THEN Deleted
                       ELSE [requests[p] EXCEPT !.investors = aged(@)]]
    /\ loc' = [w \in Workers |->
                  IF pc[w] = "I_save" THEN [loc[w] EXCEPT !.investors = aged(@)]
                  ELSE IF pc[w] \in {"P_notify", "P_save", "U_complete"}
                  THEN [loc[w] EXCEPT !.read.investors = aged(@),
                                      !.local.investors = aged(@)]
                  ELSE loc[w]]
    /\ last' = NoCall
    /\ UNCHANGED <<investments, transactions, notifications, hashCount, failures, pc, calls>>

\* ------------------------------------------- POST /api/funding-requests
\* FundingRequest.findOne({cid, status: {$in: [...]}})
existingActiveRequest(cid) ==
    \E p \in 1..Len(requests) :
        /\ requests[p] # Deleted
        /\ requests[p].cid = cid
        /\ requests[p].status \in {"pending", "partially_funded", "funded", "growing"}

\* The role check, the video lookup and the active-request lookup.
createOutcome(user, cid) ==
    IF role(user) # "farmer" THEN 403
    ELSE IF videoOwner(cid) # user THEN 404
    ELSE IF existingActiveRequest(cid) THEN 409
    ELSE Proceed

CreateBegin(w, user, amount, roi, cid) ==
    /\ UNCHANGED market
    /\ pc[w] = "idle"
    /\ calls < MaxCalls
    /\ Len(requests) + Busy({"C_save"}) < MaxRequests
    /\ IF createOutcome(user, cid) # Proceed
       THEN UNCHANGED vars
       ELSE /\ Goto(w, "C_save", [op |-> "create", user |-> user, amount |-> amount,
                                  roi |-> roi, cid |-> cid])
            /\ UNCHANGED <<db, hashCount, failures>>

newRequest(l) ==
    fundingRequestPreSave(
        [farmerWallet |-> l.user, amount |-> l.amount, roi |-> l.roi, cid |-> l.cid,
         fundedAmount |-> 0, status |-> "pending", investors |-> <<>>, updates |-> <<>>])

\* newRequest.save(), then the global notification.
CreateSave(w) ==
    /\ UNCHANGED market
    /\ pc[w] = "C_save"
    /\ UNCHANGED <<investments, transactions, hashCount>>
    /\ \/ /\ requests' = Append(requests, newRequest(loc[w]))
          /\ Respond(w, [op |-> "create", p |-> Len(requests) + 1], {201})
          /\ Notify({[recipient |-> "global", type |-> "funding",
                      itemId |-> Len(requests) + 1]})
       \/ /\ Throw(w)
          /\ UNCHANGED <<requests, notifications>>

\* ------------------------------------------------ POST /api/investments
Contributions == hashCount.sim_invest

\* $inc fundedAmount and $push investors, as one atomic document update.
incAndPush(doc, user, amount) ==
    [doc EXCEPT !.fundedAmount = @ + amount,
                !.investors = Append(@, [investorId |-> user, amount |-> amount,
                                         txHash |-> generateSimulatedTxHash("sim_invest"),
                                         age |-> 0])]

\* The role check and the outcome of findByIdAndUpdate.
investOutcome(user, p, amount) ==
    IF role(user) # "investor" THEN 403
    ELSE IF ~Present(p) THEN 404
    ELSE Proceed

InvestBegin(w, user, p, amount) ==
    /\ UNCHANGED market
    /\ pc[w] = "idle"
    /\ calls < MaxCalls
    /\ Contributions < MaxInvestments
    /\ IF investOutcome(user, p, amount) # Proceed
       THEN UNCHANGED vars
       ELSE /\ UNCHANGED <<investments, transactions, notifications>>
            /\ \/ /\ requests' = [requests EXCEPT ![p] = incAndPush(@, user, amount)]
                  /\ hashCount' = [hashCount EXCEPT !.sim_invest = @ + 1]
                  /\ Goto(w, "I_save", [op |-> "invest", user |-> user, p |-> p,
                                        amount |-> amount,
                                        farmer |-> requests[p].farmerWallet,
                                        investors |-> requests'[p].investors])
                  /\ UNCHANGED failures
               \/ /\ CanFail
                  /\ failures' = failures + 1
                  /\ Reply(w, [op |-> "invest", p |-> p], 500)
                  /\ UNCHANGED <<requests, hashCount>>

\* updatedFundingRequest.investors.find(...): the first entry of this investor
\* with this amount that is younger than the proximity window; 0 if none.
investorEntry(investors, user, amount) ==
    LET hits == {i \in 1..Len(investors) :
                    /\ investors[i].investorId = user
                    /\ investors[i].amount = amount
                    /\ investors[i].age < ProximityMs}
    IN IF hits = {} THEN 0 ELSE CHOOSE i \in hits : \A j \in hits : i <= j

\* investmentSchema.pre('save'): copy the project's terms when it is found.
investmentPreSave(inv) ==
    IF Present(inv.projectId)
    THEN [inv EXCEPT !.roi = requests[inv.projectId].roi,
                     !.farmerWallet = requests[inv.projectId].farmerWallet]
    ELSE inv

newInvestment(l, entry) ==
    investmentPreSave(
        [investorWallet |-> l.user, projectId |-> l.p, amount |-> l.amount,
         roi |-> Undefined, farmerWallet |-> "none", status |-> "active",
         progress |-> 0, txHash |-> entry.txHash,
         payoutAmount |-> Undefined,
         payoutTxHash |-> NoHash, payoutNotified |-> FALSE])

\* The lookup of the pushed entry, then newInvestment.save().
InvestSave(w) ==
    /\ UNCHANGED market
    /\ pc[w] = "I_save"
    /\ UNCHANGED <<requests, transactions, notifications, hashCount>>
    /\ LET l == loc[w]
           e == investorEntry(l.investors, l.user, l.amount)
       IN IF e = 0
          THEN Reply(w, [op |-> "invest", p |-> l.p], 500)
               /\ UNCHANGED <<investments, failures>>
          ELSE \/ /\ investments' = Append(investments, newInvestment(l, l.investors[e]))
                  /\ Goto(w, "I_tx", [op |-> "invest", p |-> l.p, farmer |-> l.farmer,
                                      id |-> Len(investments) + 1,
                                      inv |-> investments'[Len(investments) + 1]])
                  /\ UNCHANGED failures
               \/ /\ Throw(w)
                  /\ UNCHANGED investments

\* txHashTaken for a txHash path without its unique index.
txHashTakenNever(h) == FALSE

\* Transaction.save(): the unique index on txHash rejects a second entry.
txHashTaken(h) == \E t \in transactions : t.txHash = h

\* transaction.save(), then the farmer's notification.
InvestTx(w) ==
    /\ UNCHANGED market
    /\ pc[w] = "I_tx"
    /\ UNCHANGED <<requests, investments, hashCount>>
    /\ LET l == loc[w]
       IN IF txHashTaken(l.inv.txHash)
          THEN Reply(w, [op |-> "invest", p |-> l.p], 500)
               /\ UNCHANGED <<transactions, notifications, failures>>
          ELSE \/ /\ transactions' = transactions \cup
                        {[_id |-> Cardinality(transactions) + 1,
                          userId |-> l.inv.investorWallet, txHash |-> l.inv.txHash,
                          type |-> "investment", amount |-> l.inv.amount,
                          projectId |-> l.inv.projectId]}
                  /\ Respond(w, [op |-> "invest", p |-> l.p, id |-> l.id],
                             respondInvestment(l.inv, 201))
                  /\ Notify({[recipient |-> l.farmer, type |-> "investment",
                              itemId |-> l.p]})
               \/ /\ Throw(w)
                  /\ UNCHANGED <<transactions, notifications>>

\* ---------------------------------------- PUT /api/investments/:id/progress
Payouts == Cardinality({t \in transactions : t.type = "payout"})

\* The status transition of the handler, on the in-memory document.
applyProgress(inv, progress) ==
    LET i1 == [inv EXCEPT !.progress = progress]
    IN IF i1.progress >= 100 /\ i1.status # "harvested"
       THEN [i1 EXCEPT !.status = "harvested"]
       ELSE IF i1.progress > 0 /\ i1.status = "active"
       THEN [i1 EXCEPT !.status = "growing"]
       ELSE i1

\* payoutDue without its guards: every call at 100 runs the payout block.
payoutDueAlways(read, progress) == progress >= 100

\* The payout block runs for a document that just became harvested and is not
\* yet marked payoutNotified.
payoutDue(read, progress) ==
    progress >= 100 /\ read.status # "harvested" /\ ~read.payoutNotified

\* investment.save(): a $set of the paths changed since the document was read.
saveInvestment(stored, read, local) ==
    [f \in DOMAIN stored |-> IF local[f] # read[f] THEN local[f] ELSE stored[f]]

AfterPayout(l) ==
    IF l.note # "" /\ l.projPresent THEN "U_note" ELSE "U_save"

\* progressOutcome without the range check on the submitted value.
progressOutcomeUnchecked(id, progress) ==
    IF id > Len(investments) THEN 404
    ELSE IF /\ investments[id].status \in {"harvested", "cancelled"}
            /\ (progress < 100 \/ investments[id].status = "cancelled")
    THEN 400
    ELSE Proceed

\* The range check, findById and the terminal-state guard.
progressOutcome(id, progress) ==
    IF progress < 0 \/ progress > 100 THEN 400
    ELSE IF id > Len(investments) THEN 404
    ELSE IF /\ investments[id].status \in {"harvested", "cancelled"}
            /\ (progress < 100 \/ investments[id].status = "cancelled")
    THEN 400
    ELSE Proceed

UpdateProgressBegin(w, id, progress, note) ==
    /\ UNCHANGED market
    /\ pc[w] = "idle"
    /\ calls < MaxCalls
    /\ IF progressOutcome(id, progress) # Proceed
       THEN UNCHANGED vars
       ELSE LET read == investments[id]
                l == [op |-> "progress", id |-> id, progress |-> progress,
                      note |-> note, read |-> read,
                      inv |-> applyProgress(read, progress),
                      projPresent |-> Present(read.projectId),
                      payoutTriggered |-> FALSE]
            IN /\ UNCHANGED <<db, hashCount, failures>>
               /\ IF payoutDue(read, progress)
                  THEN /\ Payouts + Busy({"U_payout"}) < MaxPayouts
                       /\ Goto(w, "U_payout", l)
                  ELSE Goto(w, AfterPayout(l), l)

\* The payout fields on the in-memory document.
withPayout(inv) ==
    [inv EXCEPT !.payoutAmount = (inv.amount * inv.roi) \div 100,
                !.payoutTxHash = generateSimulatedTxHash("sim_payout")]

\* UpdateProgressPayout with payoutTransaction.save() inside a try/catch of its
\* own, as the notifications are: a failed ledger write is logged and the
\* handler goes on to set payoutNotified.
UpdateProgressPayoutLogged(w) ==
    /\ UNCHANGED market
    /\ pc[w] = "U_payout"
    /\ UNCHANGED <<requests, investments>>
    /\ LET l == loc[w]
           paid == withPayout(l.inv)
           entry == [_id |-> Cardinality(transactions) + 1,
                     userId |-> paid.investorWallet, txHash |-> paid.payoutTxHash,
                     type |-> "payout", amount |-> paid.payoutAmount,
                     projectId |-> IF l.projPresent THEN paid.projectId ELSE 0]
       IN /\ l.inv.roi # Undefined
          /\ hashCount' = [hashCount EXCEPT !.sim_payout = @ + 1]
          /\ Goto(w, AfterPayout(l),
                  [l EXCEPT !.inv = [paid EXCEPT !.payoutNotified = TRUE],
                            !.payoutTriggered = TRUE])
          /\ UNCHANGED notifications
          /\ \/ transactions' = transactions \cup {entry} /\ UNCHANGED failures
             \/ CanFail /\ failures' = failures + 1 /\ UNCHANGED transactions

\* payoutTransaction.save(), the investor's and the farmer's notifications,
\* then payoutNotified = true on the in-memory document.
UpdateProgressPayout(w) ==
    /\ UNCHANGED market
    /\ pc[w] = "U_payout"
    /\ UNCHANGED <<requests, investments>>
    /\ LET l == loc[w]
           paid == withPayout(l.inv)
       IN IF l.inv.roi = Undefined
          THEN Reply(w, [op |-> "progress", id |-> l.id], 400)
               /\ UNCHANGED <<transactions, notifications, hashCount, failures>>
          ELSE \/ /\ transactions' = transactions \cup
                        {[_id |-> Cardinality(transactions) + 1,
                          userId |-> paid.investorWallet, txHash |-> paid.payoutTxHash,
                          type |-> "payout", amount |-> paid.payoutAmount,
                          projectId |-> IF l.projPresent THEN paid.projectId ELSE 0]}
                  /\ hashCount' = [hashCount EXCEPT !.sim_payout = @ + 1]
                  /\ Goto(w, AfterPayout(l),
                          [l EXCEPT !.inv = [paid EXCEPT !.payoutNotified = TRUE],
                                    !.payoutTriggered = TRUE])
                  /\ Notify({[recipient |-> paid.investorWallet, type |-> "payout",
                              itemId |-> l.id],
                             [recipient |-> paid.farmerWallet, type |-> "payout",
                              itemId |-> l.id]})
               \/ /\ Throw(w)
                  /\ UNCHANGED <<transactions, notifications, hashCount>>

\* Investment.find({projectId}).distinct('investorWallet')
investorsInProject(p) ==
    {investments[i].investorWallet : i \in {j \in 1..Len(investments) :
                                               investments[j].projectId = p}}

\* The notifications both routes insert for an update of project p.
updateNotices(p) ==
    {[recipient |-> u, type |-> "update", itemId |-> p] : u \in investorsInProject(p)}

\* The update entry both routes push: an _id, a date and the text, no `id`.
newUpdate(text) == [id |-> "", date |-> "today", text |-> text]

\* The farmer note: FundingRequest.findById, updates.push, save().
UpdateProgressNote(w) ==
    /\ UNCHANGED market
    /\ pc[w] = "U_note"
    /\ UNCHANGED <<investments, transactions, hashCount, failures>>
    /\ LET l == loc[w]
           p == l.read.projectId
       IN IF ~Present(p)
          THEN Goto(w, "U_save", l) /\ UNCHANGED <<requests, notifications>>
          ELSE LET pushed == [requests[p] EXCEPT !.updates = Append(@, newUpdate(l.note))]
               IN IF ~updatesValid(pushed)
                  THEN Reply(w, [op |-> "progress", id |-> l.id], 400)
                       /\ UNCHANGED <<requests, notifications>>
                  ELSE /\ \E kept \in RevertedStaysModified :
                              requests' = [requests EXCEPT
                                  ![p] = saveRequest(@, requests[p], pushed, kept)]
                       /\ notifications' = notifications \cup updateNotices(p)
                       /\ Goto(w, "U_save", l)

UpdateProgressSave(w) ==
    /\ UNCHANGED market
    /\ pc[w] = "U_save"
    /\ UNCHANGED <<requests, transactions, notifications, hashCount>>
    /\ LET l == loc[w]
       IN \/ /\ investments' = [investments EXCEPT
                                   ![l.id] = saveInvestment(@, l.read, l.inv)]
             /\ UNCHANGED failures
             /\ IF l.payoutTriggered /\ l.inv.status = "harvested" /\ l.projPresent
                THEN Goto(w, "U_check", [op |-> "progress", id |-> l.id,
                                         progress |-> l.progress,
                                         was |-> l.read.status,
                                         paid |-> l.payoutTriggered,
                                         p |-> l.read.projectId])
                ELSE Respond(w, [op |-> "progress", id |-> l.id,
                                 progress |-> l.progress, was |-> l.read.status,
                                 paid |-> l.payoutTriggered],
                             respondInvestment(l.inv, 200))
          \/ /\ Throw(w)
             /\ UNCHANGED investments

\* countDocuments with the status condition dropped: every record of the
\* project counts as harvested.
countInvestmentsAnyStatus(p, statuses) ==
    Cardinality({i \in 1..Len(investments) : investments[i].projectId = p})

\* Investment.countDocuments({projectId, status})
countInvestments(p, statuses) ==
    Cardinality({i \in 1..Len(investments) :
                    investments[i].projectId = p /\ investments[i].status \in statuses})

\* The response of a call that leaves the post-save check.
progressChecked(w, l) ==
    Respond(w, [op |-> "progress", id |-> l.id, progress |-> l.progress,
                was |-> l.was, paid |-> l.paid],
            respondInvestment(investments[l.id], 200))

\* totalInvestmentsInProject
UpdateProgressCheck(w) ==
    /\ UNCHANGED market
    /\ pc[w] = "U_check"
    /\ UNCHANGED <<db, hashCount, failures>>
    /\ LET l == loc[w]
           total == countInvestments(l.p, {"active", "growing", "harvested", "cancelled"})
       IN Goto(w, "U_count", l @@ [total |-> total])

\* harvestedInvestmentsInProject, and the comparison of the two counts.
UpdateProgressCount(w) ==
    /\ UNCHANGED market
    /\ pc[w] = "U_count"
    /\ UNCHANGED <<db, hashCount, failures>>
    /\ LET l == loc[w]
       IN IF l.total > 0 /\ l.total = countInvestments(l.p, {"harvested"})
          THEN Goto(w, "U_find", l)
          ELSE progressChecked(w, l)

\* FundingRequest.findById, then fundingRequest.status = 'completed' in memory.
UpdateProgressFind(w) ==
    /\ UNCHANGED market
    /\ pc[w] = "U_find"
    /\ UNCHANGED <<db, hashCount, failures>>
    /\ LET l == loc[w]
       IN IF Present(l.p) /\ requests[l.p].status # "completed"
          THEN Goto(w, "U_complete", l @@ [read |-> requests[l.p],
                                           local |-> [requests[l.p] EXCEPT
                                                         !.status = "completed"]])
          ELSE progressChecked(w, l)

\* fundingRequest.save(), then the farmer's notification.
UpdateProgressComplete(w) ==
    /\ UNCHANGED market
    /\ pc[w] = "U_complete"
    /\ UNCHANGED <<investments, transactions, hashCount>>
    /\ LET l == loc[w]
       IN IF requests[l.p] = Deleted
          THEN Reply(w, [op |-> "progress", id |-> l.id], 500)
               /\ UNCHANGED <<requests, notifications, failures>>
          ELSE \/ /\ \E kept \in RevertedStaysModified :
                        requests' = [requests EXCEPT ![l.p] =
                                        saveRequest(@, l.read, l.local, kept)]
                  /\ Respond(w, [op |-> "progress", id |-> l.id,
                                 progress |-> l.progress, was |-> l.was,
                                 paid |-> l.paid],
                             respondInvestment(investments[l.id], 200))
                  /\ Notify({[recipient |-> l.read.farmerWallet, type |-> "update",
                              itemId |-> l.p]})
               \/ /\ Throw(w)
                  /\ UNCHANGED <<requests, notifications>>

\* ------------------------------------------ PUT /api/funding-requests/:id
\* The status part of the handler: the terminal-state guard, then the assignment.
statusRejected(read, status) ==
    status # "" /\ read.status \in {"cancelled", "completed"} /\ status # read.status

withStatus(local, status) ==
    IF status = "" THEN local ELSE [local EXCEPT !.status = status]

\* The empty-body check, findById, the ownership check and, for a call
\* without update text, the status part.
putOutcome(user, p, text, status) ==
    IF text = "" /\ status = "" THEN 400
    ELSE IF ~Present(p) THEN 404
    ELSE IF requests[p].farmerWallet # user THEN 403
    ELSE IF text = "" /\ statusRejected(requests[p], status) THEN 400
    ELSE Proceed

PutBegin(w, user, p, text, status) ==
    /\ UNCHANGED market
    /\ pc[w] = "idle"
    /\ calls < MaxCalls
    /\ IF putOutcome(user, p, text, status) # Proceed
       THEN UNCHANGED vars
       ELSE LET read == requests[p]
                l == [op |-> "put", p |-> p, status |-> status, read |-> read,
                      local |-> read]
            IN /\ UNCHANGED <<db, hashCount, failures>>
               /\ IF text # ""
                  THEN Goto(w, "P_notify",
                            [l EXCEPT !.local.updates = Append(@, newUpdate(text))])
                  ELSE Goto(w, "P_save", [l EXCEPT !.local = withStatus(@, status)])

\* The investor lookup and Notification.insertMany, then the status part.
PutNotify(w) ==
    /\ UNCHANGED market
    /\ pc[w] = "P_notify"
    /\ UNCHANGED <<requests, investments, transactions, hashCount>>
    /\ LET l == loc[w]
           ns == updateNotices(l.p)
       IN \/ /\ notifications' = notifications \cup ns
             /\ UNCHANGED failures
             /\ IF statusRejected(l.read, l.status)
                THEN Reply(w, [op |-> "put", p |-> l.p], 400)
                ELSE Goto(w, "P_save", [l EXCEPT !.local = withStatus(@, l.status)])
          \/ /\ ns # {}
             /\ Throw(w)
             /\ UNCHANGED notifications

\* request.save(): validation, the pre-save hook, the write.
PutSave(w) ==
    /\ UNCHANGED market
    /\ pc[w] = "P_save"
    /\ UNCHANGED <<investments, transactions, notifications, hashCount>>
    /\ LET l == loc[w]
       IN IF ~updatesValid(l.local)
          THEN Reply(w, [op |-> "put", p |-> l.p], 400) /\ UNCHANGED <<requests, failures>>
          ELSE IF requests[l.p] = Deleted
          THEN Reply(w, [op |-> "put", p |-> l.p], 500) /\ UNCHANGED <<requests, failures>>
          ELSE \/ /\ \E kept \in RevertedStaysModified :
                        requests' = [requests EXCEPT
                                        ![l.p] = saveRequest(@, l.read, l.local, kept)]
                  /\ Respond(w, [op |-> "put", p |-> l.p, status |-> l.status],
                             respondRequest(200))
                  /\ UNCHANGED failures
               \/ /\ Throw(w)
                  /\ UNCHANGED requests

\* --------------------------------------- DELETE /api/funding-requests/:id
\* cancelOutcome without the funding check.
cancelOutcomeFundedAllowed(user, p) ==
    IF ~Present(p) THEN 404
    ELSE IF requests[p].farmerWallet # user THEN 403
    ELSE Proceed

\* findById, the ownership check and the funding check.
cancelOutcome(user, p) ==
    IF ~Present(p) THEN 404
    ELSE IF requests[p].farmerWallet # user THEN 403
    ELSE IF requests[p].fundedAmount > 0 THEN 400
    ELSE Proceed

CancelBegin(w, user, p) ==
    /\ UNCHANGED market
    /\ pc[w] = "idle"
    /\ calls < MaxCalls
    /\ IF cancelOutcome(user, p) # Proceed
       THEN UNCHANGED vars
       ELSE /\ Goto(w, "D_delete", [op |-> "cancel", p |-> p])
            /\ UNCHANGED <<db, hashCount, failures>>

\* request.deleteOne()
CancelDelete(w) ==
    /\ UNCHANGED market
    /\ pc[w] = "D_delete"
    /\ UNCHANGED <<investments, transactions, notifications, hashCount>>
    /\ \/ /\ requests' = [requests EXCEPT ![loc[w].p] = Deleted]
          /\ Respond(w, [op |-> "cancel", p |-> loc[w].p], {200})
          /\ UNCHANGED failures
       \/ /\ Throw(w)
          /\ UNCHANGED requests

\* ------------------------------------------------------------ the system
Create(w) ==
    \E u \in Users, a \in RequestAmounts, r \in Rois, c \in Cids :
        CreateBegin(w, u, a, r, c)

\* Investors are interchangeable: the first contribution is taken to be i1's.
InvestCallers == IF Contributions = 0 THEN Users \ {"i2"} ELSE Users

Invest(w) ==
    \E u \in InvestCallers, p \in 1..MaxRequests, a \in InvestAmounts :
        InvestBegin(w, u, p, a)

UpdateProgress(w) ==
    \E id \in 1..MaxInvestments, g \in ProgressInputs, n \in NoteInputs :
        UpdateProgressBegin(w, id, g, n)

Put(w) ==
    \E u \in Users, p \in 1..MaxRequests, t \in NoteInputs, st \in StatusInputs :
        PutBegin(w, u, p, t, st)

Cancel(w) ==
    \E u \in Users, p \in 1..MaxRequests : CancelBegin(w, u, p)

Next ==
    \/ Tick
    \/ \E w \in Workers :
        \/ Create(w)
        \/ CreateSave(w)
        \/ Invest(w)
        \/ InvestSave(w)
        \/ InvestTx(w)
        \/ UpdateProgress(w)
        \/ UpdateProgressPayout(w)
        \/ UpdateProgressNote(w)
        \/ UpdateProgressSave(w)
        \/ UpdateProgressCheck(w)
        \/ UpdateProgressCount(w)
        \/ UpdateProgressFind(w)
        \/ UpdateProgressComplete(w)
        \/ Put(w)
        \/ PutNotify(w)
        \/ PutSave(w)
        \/ Cancel(w)
        \/ CancelDelete(w)

Spec == Init /\ [][Next]_vars

\* The same handlers when the calls arrive one after another: a handler starts
\* only while no other is running.
Quiet == \A w \in Workers : pc[w] = "idle"

NextSeq ==
    \/ Tick
    \/ \E w \in Workers :
        \/ Quiet /\ Create(w)
        \/ CreateSave(w)
        \/ Quiet /\ Invest(w)
        \/ InvestSave(w)
        \/ InvestTx(w)
        \/ Quiet /\ UpdateProgress(w)
        \/ UpdateProgressPayout(w)
        \/ UpdateProgressNote(w)
        \/ UpdateProgressSave(w)
        \/ UpdateProgressCheck(w)
        \/ UpdateProgressCount(w)
        \/ UpdateProgressFind(w)
        \/ UpdateProgressComplete(w)
        \/ Quiet /\ Put(w)
        \/ PutNotify(w)
        \/ PutSave(w)
        \/ Quiet /\ Cancel(w)
        \/ CancelDelete(w)

SpecSeq == Init /\ [][NextSeq]_vars

\* The stored FundingRequest documents.
Stored == {p \in 1..Len(requests) : requests[p] # Deleted}

\* ------------------------------------- GET /api/funding-requests (List)
\* The two listings read the FundingRequest collection and write nothing.
\* They are checked over collections of their own: documents carrying the
\* fields the queries read, with the statuses the handlers above store.
MaxListed == 2          \* documents in a listed collection
MaxListCalls == 1       \* listing calls made on a collection

ListFarmers == {"f1", "f2"}
ListCallers == ListFarmers \cup {"i1"}
Crops == {<<"w">>, <<"r">>}
Methods == {<<"o">>}
ListRois == {40, 60}
ListAmounts == {2, 4}
StoredStatuses == {"pending", "partially_funded", "funded"}

\* Query strings, as sequences of characters; <<>> is a parameter not supplied.
CropInputs == {<<>>, <<"w">>, <<" ", "w", " ">>, <<"r">>}
MethodInputs == {<<>>, <<"o">>, <<"h">>}
NumberInputs == {"", "abc", "-1", "3", "50"}

ListedDocs ==
    [farmerWallet : ListFarmers, crop : Crops, method : Methods, roi : ListRois,
     amount : ListAmounts, status : StoredStatuses]

ListedCollections ==
    UNION {[1..n -> ListedDocs] : n \in 1..MaxListed}

\* String.prototype.trim
RECURSIVE trimStart(_)
trimStart(s) == IF s # <<>> /\ Head(s) = " " THEN trimStart(Tail(s)) ELSE s

RECURSIVE trimEnd(_)
trimEnd(s) ==
    IF s # <<>> /\ s[Len(s)] = " " THEN trimEnd(SubSeq(s, 1, Len(s) - 1)) ELSE s

trim(s) == trimEnd(trimStart(s))

\* parseFloat of the numeric query strings: the texts that are numbers; every
\* other text gives NaN.
parseFloat == ("-1" :> -1) @@ ("3" :> 3) @@ ("50" :> 50)

isNaN(s) == s \notin DOMAIN parseFloat

\* One condition of a MongoDB filter on a document.
holds(doc, c) ==
    CASE c.op = "in" -> doc[c.key] \in c.val
      [] c.op = "eq" -> doc[c.key] = c.val
      [] c.op = "gte" -> doc[c.key] >= c.val
      [] c.op = "lte" -> doc[c.key] <= c.val

statusCondition == [key |-> "status", op |-> "in", val |-> {"pending", "partially_funded"}]

\* The filter's own keys, in insertion order: status, then crop and method.
plainConditions(q) ==
    <<statusCondition>>
    \o (IF q.crop # <<>> THEN <<[key |-> "crop", op |-> "eq", val |-> trim(q.crop)]>>
        ELSE <<>>)
    \o (IF q.method # <<>> THEN <<[key |-> "method", op |-> "eq", val |-> trim(q.method)]>>
        ELSE <<>>)

\* numericFilters: a value that is not a number or is negative is left out.
numericFilters(q) ==
    (IF q.minRoi # "" /\ ~isNaN(q.minRoi) /\ parseFloat[q.minRoi] >= 0
     THEN <<[key |-> "roi", op |-> "gte", val |-> parseFloat[q.minRoi]]>> ELSE <<>>)
    \o (IF q.maxAmount # "" /\ ~isNaN(q.maxAmount) /\ parseFloat[q.maxAmount] >= 0
        THEN <<[key |-> "amount", op |-> "lte", val |-> parseFloat[q.maxAmount]]>>
        ELSE <<>>)

\* listFilter with $and built after the status key is deleted.
listFilterStatusDeletedFirst(q) ==
    IF Len(numericFilters(q)) > 0
    THEN [top |-> Tail(plainConditions(q)),
          and |-> Tail(plainConditions(q)) \o numericFilters(q)]
    ELSE [top |-> plainConditions(q), and |-> <<>>]

\* The filter object: with numeric filters, every key is copied into $and,
\* status is deleted from the top level and the numeric conditions are pushed.
listFilter(q) ==
    IF Len(numericFilters(q)) > 0
    THEN [top |-> Tail(plainConditions(q)),
          and |-> plainConditions(q) \o numericFilters(q)]
    ELSE [top |-> plainConditions(q), and |-> <<>>]

\* FundingRequest.find(filter)
find(filter) ==
    {p \in Stored :
        /\ \A i \in DOMAIN filter.top : holds(requests[p], filter.top[i])
        /\ \A i \in DOMAIN filter.and : holds(requests[p], filter.and[i])}

InitList ==
    /\ requests \in ListedCollections
    /\ investments = <<>>
    /\ transactions = {}
    /\ notifications = {}
    /\ hashCount = [sim_invest |-> 0, sim_payout |-> 0]
    /\ failures = 0
    /\ pc = [w \in Workers |-> "idle"]
    /\ loc = [w \in Workers |-> NoLocals]
    /\ last = NoCall
    /\ calls = 0
    /\ listings = <<>>
    /\ purchases = <<>>

\* GET /api/funding-requests
List(q) ==
    /\ UNCHANGED market
    /\ calls < MaxListCalls
    /\ calls' = calls + 1
    /\ last' = [op |-> "list", query |-> q, returned |-> find(listFilter(q)),
                code |-> 200, done |-> TRUE]
    /\ UNCHANGED <<db, hashCount, failures, pc, loc>>

\* GET /api/funding-requests/farmer/:farmerId
FarmerListing(user, farmerId) ==
    /\ UNCHANGED market
    /\ calls < MaxListCalls
    /\ calls' = calls + 1
    /\ last' = IF user # farmerId
               THEN [op |-> "farmerListing", farmerId |-> farmerId, code |-> 403,
                     done |-> FALSE]
               ELSE [op |-> "farmerListing", farmerId |-> farmerId,
                     returned |-> {p \in Stored : requests[p].farmerWallet = farmerId},
                     code |-> 200, done |-> TRUE]
    /\ UNCHANGED <<db, hashCount, failures, pc, loc>>

Queries ==
    [crop : CropInputs, method : MethodInputs, minRoi : NumberInputs,
     maxAmount : NumberInputs]

NextList ==
    \/ \E q \in Queries : List(q)
    \/ \E u \in ListCallers, f \in ListFarmers : FarmerListing(u, f)

SpecList == InitList /\ [][NextList]_vars

\* ------------------------------------------------ POST /api/purchases
\* The purchase route works on the Listing, Purchase, Transaction and
\* Notification collections.  It is checked over marketplaces of its own:
\* listings of farmer f1 that are active or cancelled, and nothing bought yet.
MaxListings == 2        \* Listing documents in the marketplace
MaxPurchaseCalls == 3   \* purchase calls that get past their checks

Buyers == {"b1", "b2"}
PurchaseCallers == Buyers \cup Farmers
OfferPrices == {0, 3}
ListingDocs == [farmerWallet : Farmers, status : {"active", "cancelled"}]
Marketplaces == UNION {[1..n -> ListingDocs] : n \in 1..MaxListings}

marketRole(u) == IF u \in Buyers THEN "buyer" ELSE role(u)

InitPurchase ==
    /\ listings \in Marketplaces
    /\ purchases = <<>>
    /\ requests = <<>>
    /\ investments = <<>>
    /\ transactions = {}
    /\ notifications = {}
    /\ hashCount = [sim_purchase |-> 0, sim_sale |-> 0]
    /\ failures = 0
    /\ pc = [w \in Workers |-> "idle"]
    /\ loc = [w \in Workers |-> NoLocals]
    /\ last = NoCall
    /\ calls = 0

\* The role check, the price check, Listing.findById and the checks on the
\* listing read.
purchaseOutcome(user, l, price) ==
    IF marketRole(user) # "buyer" THEN 403
    ELSE IF price <= 0 THEN 400
    ELSE IF l \notin DOMAIN listings THEN 404
    ELSE IF listings[l].status # "active" THEN 400
    ELSE IF listings[l].farmerWallet = user THEN 400
    ELSE Proceed

PurchaseBegin(w, user, l, price) ==
    /\ pc[w] = "idle"
    /\ calls < MaxPurchaseCalls
    /\ IF purchaseOutcome(user, l, price) # Proceed
       THEN UNCHANGED vars
       ELSE /\ Goto(w, "B_update", [op |-> "purchase", user |-> user, l |-> l,
                                    price |-> price])
            /\ UNCHANGED <<db, market, hashCount, failures>>

\* Listing.findByIdAndUpdate($set status 'sold'), then the purchase's txHash.
PurchaseUpdate(w) ==
    /\ pc[w] = "B_update"
    /\ UNCHANGED <<db, purchases>>
    /\ LET l == loc[w]
       IN \/ /\ listings' = [listings EXCEPT ![l.l].status = "sold"]
             /\ hashCount' = [hashCount EXCEPT !.sim_purchase = @ + 1]
             /\ Goto(w, "B_purchase",
                     l @@ [farmer |-> listings[l.l].farmerWallet,
                           txHash |-> generateSimulatedTxHash("sim_purchase")])
             /\ UNCHANGED failures
          \/ /\ Throw(w)
             /\ UNCHANGED <<listings, hashCount>>

\* newPurchase.save(): the pre-save hook copies the listing's farmer.
PurchaseSave(w) ==
    /\ pc[w] = "B_purchase"
    /\ UNCHANGED <<db, listings, hashCount>>
    /\ LET l == loc[w]
       IN \/ /\ purchases' = Append(purchases,
                    [buyerWallet |-> l.user, listingId |-> l.l,
                     farmerWallet |-> listings[l.l].farmerWallet,
                     price |-> l.price, txHash |-> l.txHash])
             /\ Goto(w, "B_buyerTx", l @@ [id |-> Len(purchases) + 1])
             /\ UNCHANGED failures
          \/ /\ Throw(w)
             /\ UNCHANGED purchases

\* buyerTransaction.save(), then the sale's txHash.
PurchaseBuyerTx(w) ==
    /\ pc[w] = "B_buyerTx"
    /\ UNCHANGED <<requests, investments, notifications, market>>
    /\ LET l == loc[w]
       IN \/ /\ transactions' = transactions \cup
                    {[_id |-> Cardinality(transactions) + 1, userId |-> l.user,
                      txHash |-> l.txHash, type |-> "purchase", amount |-> l.price,
                      listingId |-> l.l]}
             /\ hashCount' = [hashCount EXCEPT !.sim_sale = @ + 1]
             /\ Goto(w, "B_farmerTx",
                     l @@ [saleTxHash |-> generateSimulatedTxHash("sim_sale")])
             /\ UNCHANGED failures
          \/ /\ Throw(w)
             /\ UNCHANGED <<transactions, hashCount>>

\* farmerTransaction.save(), then the farmer's notification and the response.
PurchaseFarmerTx(w) ==
    /\ pc[w] = "B_farmerTx"
    /\ UNCHANGED <<requests, investments, market, hashCount>>
    /\ LET l == loc[w]
       IN \/ /\ transactions' = transactions \cup
                    {[_id |-> Cardinality(transactions) + 1, userId |-> l.farmer,
                      txHash |-> l.saleTxHash, type |-> "sale", amount |-> l.price,
                      listingId |-> l.l]}
             /\ Respond(w, [op |-> "purchase", l |-> l.l, id |-> l.id], {201})
             /\ Notify({[recipient |-> l.farmer, type |-> "purchase", itemId |-> l.l]})
          \/ /\ Throw(w)
             /\ UNCHANGED <<transactions, notifications>>

Purchase(w) ==
    \E user \in PurchaseCallers, l \in 1..MaxListings, price \in OfferPrices :
        PurchaseBegin(w, user, l, price)

NextPurchase ==
    \E w \in Workers :
        \/ Purchase(w)
        \/ PurchaseUpdate(w)
        \/ PurchaseSave(w)
        \/ PurchaseBuyerTx(w)
        \/ PurchaseFarmerTx(w)

SpecPurchase == InitPurchase /\ [][NextPurchase]_vars

\* ================================================================ claims
\* C1: in every reachable state every FundingRequest R has
\* 0 <= R.fundedAmount <= R.amount.
C1_FundedWithinRequested ==
    \A p \in Stored :
        0 <= requests[p].fundedAmount /\ requests[p].fundedAmount <= requests[p].amount

\* C2: in every reachable state the fundedAmount of every FundingRequest is the
\* sum of the amounts of its embedded contributions.
C2_FundedIsSumOfContributions ==
    \A p \in Stored : requests[p].fundedAmount = SumAmounts(requests[p].investors)

\* C3: an Invest of amount a on a request with fundedAmount + a > amount is
\* rejected: no step adds a contribution that does not fit, nor raises
\* fundedAmount above the requested amount.
C3_OverfundingRejected ==
    [][\A p \in Stored :
          requests'[p] # Deleted /\ requests'[p].investors # requests[p].investors
              => requests'[p].fundedAmount <= requests[p].amount]_vars

\* The ledger hash an Invest handler in flight writes, or has its record carry.
InvestHashes(w) ==
    IF pc[w] = "I_tx" THEN {loc[w].inv.txHash}
    ELSE IF pc[w] = "I_save"
    THEN LET l == loc[w]
             e == investorEntry(l.investors, l.user, l.amount)
         IN IF e = 0 THEN {} ELSE {l.investors[e].txHash}
    ELSE {}

\* Requests that N = |Workers| contributions of one amount a fill exactly.
FilledByEqualShares ==
    {p \in Stored :
        /\ Len(requests[p].investors) = Cardinality(Workers)
        /\ \A i \in DOMAIN requests[p].investors :
               requests[p].investors[i].amount * Cardinality(Workers) = requests[p].amount}

InvestmentsOf(p) == {i \in 1..Len(investments) : investments[i].projectId = p}

InvestEntriesOf(p) ==
    {t \in transactions : t.type = "investment" /\ t.projectId = p}

\* C4: N concurrent Invest calls of a each on a request of N * a all succeed
\* and leave fundedAmount = N * a, N contributions, N InvestmentRecords and N
\* "investment" ledger entries.  While two of the calls are in flight each has
\* found a ledger hash of its own (txHash is unique in the ledger), and when
\* all have returned, no write having thrown, the counts above hold.
C4_ConcurrentInvestsAllLedgered ==
    /\ \A w, v \in Workers :
           /\ w # v
           /\ pc[w] \in {"I_save", "I_tx"} /\ pc[v] \in {"I_save", "I_tx"}
           /\ loc[w].p = loc[v].p
           /\ loc[w].p \in FilledByEqualShares
           => /\ InvestHashes(w) # {}
              /\ InvestHashes(v) # {}
              /\ InvestHashes(w) # InvestHashes(v)
    /\ \A p \in FilledByEqualShares :
           Quiet /\ failures = 0
           => /\ requests[p].fundedAmount = requests[p].amount
              /\ Cardinality(InvestmentsOf(p)) = Cardinality(Workers)
              /\ Cardinality(InvestEntriesOf(p)) = Cardinality(Workers)

\* C5: for every FundingRequest with a non-terminal status, the status is funded
\* iff fundedAmount = amount, partially_funded iff 0 < fundedAmount < amount,
\* and pending iff fundedAmount = 0.
C5_StatusFollowsFunding ==
    \A p \in Stored :
        LET r == requests[p]
        IN r.status \notin {"completed", "cancelled"} =>
              /\ r.status = "funded" <=> r.fundedAmount = r.amount
              /\ r.status = "partially_funded" <=>
                     (0 < r.fundedAmount /\ r.fundedAmount < r.amount)
              /\ r.status = "pending" <=> r.fundedAmount = 0

\* No handler stores the status completed or cancelled on a FundingRequest: every
\* save derives the status from fundedAmount, and a cancelled request is deleted.
\* The requests that C6 and C7 speak of are therefore not among the reachable
\* states.
TerminalStatusNeverStored ==
    \A p \in Stored : requests[p].status \notin {"completed", "cancelled"}

PayoutEntries(h) == {t \in transactions : t.type = "payout" /\ t.txHash = h}

\* An UpdateProgress(id, 100) call has just run to its response.
ProgressDone == last.op = "progress" /\ last.done /\ last.progress = 100

\* C8: of two UpdateProgress(id, 100) calls in sequence on a non-terminal record
\* the first writes the record's one payout entry and the second writes none,
\* and after either the record is payoutNotified: a call that ran to its
\* response wrote a payout entry iff it found the record not yet harvested, and
\* leaves the record harvested, payoutNotified and with exactly one payout
\* entry under its payoutTxHash.
C8_SecondCallPaysNothing ==
    ProgressDone =>
        /\ investments[last.id].payoutNotified
        /\ investments[last.id].status = "harvested"
        /\ last.paid <=> last.was # "harvested"
        /\ Cardinality(PayoutEntries(investments[last.id].payoutTxHash)) = 1

\* The second of two calls in sequence has returned and one payout entry exists.
C8_Witness ==
    /\ ProgressDone
    /\ last.was = "harvested"
    /\ ~last.paid
    /\ investments[last.id].payoutNotified
    /\ Payouts = 1

\* C9: under any interleaving of concurrent UpdateProgress calls on one record
\* at most one payout entry is written for it: two workers that both read
\* payoutNotified = false do not both write a payout entry.
C9_OnePayoutUnderConcurrency ==
    \A w, v \in Workers :
        /\ w # v
        /\ pc[w] \in {"U_note", "U_save"} /\ pc[v] \in {"U_note", "U_save"}
        /\ loc[w].id = loc[v].id
        => ~(loc[w].payoutTriggered /\ loc[v].payoutTriggered)

\* C10: in every reachable state a stored InvestmentRecord with payoutNotified
\* has a payout ledger entry under its payoutTxHash, whichever write failed.
C10_FlagImpliesPayoutEntry ==
    \A i \in 1..Len(investments) :
        investments[i].payoutNotified =>
            PayoutEntries(investments[i].payoutTxHash) # {}

\* An UpdateProgress call has just been ended by a database write that threw,
\* and a record is stored payoutNotified.
C10_Witness ==
    /\ failures > 0
    /\ last.op = "progress" /\ last.code = 500 /\ ~last.done
    /\ \E i \in 1..Len(investments) :
           /\ investments[i].payoutNotified
           /\ PayoutEntries(investments[i].payoutTxHash) # {}

\* C11: Invest is all-or-nothing.  Once every call has returned, each
\* contribution embedded in a stored request has its InvestmentRecord and its
\* "investment" ledger entry, both under the contribution's txHash: a call that
\* failed left no contribution behind.
C11_InvestAllOrNothing ==
    Quiet =>
        \A p \in Stored :
            \A i \in DOMAIN requests[p].investors :
                LET h == requests[p].investors[i].txHash
                IN /\ \E j \in InvestmentsOf(p) : investments[j].txHash = h
                   /\ \E t \in InvestEntriesOf(p) : t.txHash = h

\* Records of project p that are neither harvested nor cancelled.
NonTerminalOf(p) ==
    {i \in InvestmentsOf(p) : investments[i].status \in {"active", "growing"}}

\* C12: when an UpdateProgress call has moved a record to harvested (it paid out
\* and ran to its response) and no record of the project remains non-terminal,
\* the project's stored status is completed by the end of the call.
C12_ProjectCompletedWhenAllHarvested ==
    last.op = "progress" /\ last.done /\ last.paid =>
        LET p == investments[last.id].projectId
        IN Present(p) /\ NonTerminalOf(p) = {} => requests[p].status = "completed"

C14_ProgressMonotonic ==
    [][\A i \in 1..Len(investments) :
          investments[i].status \notin {"harvested", "cancelled"}
              => /\ investments'[i].progress >= investments[i].progress
                 /\ investments'[i].progress \in 0..100]_vars

\* C14, amended: the progress of every record stays within [0,100], and an
\* UpdateProgress call that ran to its response has stored the submitted value,
\* whether it is higher or lower than the value the record had.
C14_ProgressInRangeAndStored ==
    /\ \A i \in 1..Len(investments) : investments[i].progress \in 0..100
    /\ last.op = "progress" /\ last.done => investments[last.id].progress = last.progress

\* An UpdateProgress(id, 0) call on a growing record has run to its response:
\* the record's progress went back to 0.
C14_Witness ==
    /\ last.op = "progress" /\ last.done
    /\ last.progress = 0
    /\ last.was = "growing"
    /\ investments[last.id].progress = 0
    /\ investments[last.id].status = "growing"

\* C15: re-submitting 100 on a harvested record succeeds as a no-op, also when
\* a farmer note is supplied: a step of such a call in which no write throws
\* changes no collection, and when it ends the call, the call has run to its
\* response.  (Every other update of a harvested or cancelled record is
\* rejected by the terminal-state guard before any step.)
C15_HarvestedResubmitIsNoOp ==
    [][\A w \in Workers :
          /\ pc[w] \in {"U_note", "U_save"}
          /\ loc[w].read.status = "harvested"
          /\ pc'[w] # pc[w]
          /\ failures' = failures
          => /\ db' = db
             /\ pc'[w] = "idle" => last'.done]_vars

C17_OneOpenRequestPerCid ==
    \A p, q \in Stored :
        /\ requests[p].cid = requests[q].cid
        /\ requests[p].status \notin {"completed", "cancelled"}
        /\ requests[q].status \notin {"completed", "cancelled"}
        => p = q

\* C18: AppendUpdate with non-empty text by the owning farmer succeeds and
\* extends the update list by exactly one entry carrying the text, leaving the
\* earlier updates, fundedAmount and the contributions as they were: a call with
\* text that ends at its save, no write having thrown, has run to its response
\* and stored the list it read plus one entry.
C18_AppendUpdateExtendsUpdates ==
    [][\A w \in Workers :
          /\ pc[w] = "P_save" /\ pc'[w] = "idle"
          /\ Len(loc[w].local.updates) = Len(loc[w].read.updates) + 1
          /\ requests[loc[w].p] # Deleted
          /\ failures' = failures
          => LET p == loc[w].p
             IN /\ last'.done
                /\ requests'[p].updates = Append(requests[p].updates,
                                                 loc[w].local.updates[Len(loc[w].local.updates)])
                /\ requests'[p].fundedAmount = requests[p].fundedAmount
                /\ requests'[p].investors = requests[p].investors]_vars

\* C19: a failing notification write never fails Create, Invest, AppendUpdate
\* or UpdateProgress and never prevents the operation's own write.  A step in
\* which the write that throws is a notification write (the insertMany of an
\* update's notices, or the notification that follows a write the step has
\* made) does not end the call in its catch block: the handler goes on, or has
\* run to its response.
C19_NotificationFailureSwallowed ==
    [][\A w \in Workers :
          /\ pc'[w] # pc[w]
          /\ failures' > failures
          /\ \/ pc[w] = "P_notify"
             \/ <<requests, investments, transactions>>' #
                    <<requests, investments, transactions>>
          => (pc'[w] = "idle" => last'.done)]_vars

\* A request matches the filters a List query supplies: crop and method equal
\* the supplied texts, roi is at least minRoi, amount is at most maxAmount.
matchesSupplied(doc, q) ==
    /\ q.crop # <<>> => doc.crop = trim(q.crop)
    /\ q.method # <<>> => doc.method = trim(q.method)
    /\ q.minRoi # "" => ~isNaN(q.minRoi) /\ doc.roi >= parseFloat[q.minRoi]
    /\ q.maxAmount # "" => ~isNaN(q.maxAmount) /\ doc.amount <= parseFloat[q.maxAmount]

C21_LedgerAppendOnly ==
    [][/\ transactions \subseteq transactions'
       /\ \A t, u \in transactions' : t.txHash = u.txHash => t = u]_vars

\* An Invest call has just been refused by the ledger's unique index: two
\* records carry one txHash, the ledger holds it once, and no write has thrown.
C21_Witness ==
    /\ last.op = "invest" /\ last.code = 500 /\ ~last.done
    /\ failures = 0
    /\ \E i, j \in 1..Len(investments) :
           /\ i # j
           /\ investments[i].txHash = investments[j].txHash
           /\ Cardinality({t \in transactions : t.txHash = investments[i].txHash}) = 1

\* The payout fields of a stored InvestmentRecord.
payoutFields(inv) == <<inv.payoutAmount, inv.payoutTxHash>>

\* C22: when a record becomes harvested its payoutAmount is amount * roi / 100
\* with the roi snapshotted on the record, and the "payout" ledger entry under
\* its payoutTxHash carries that amount and credits the record's investor; no
\* later step changes the payout fields of a harvested record.
C22_PayoutComputedOnce ==
    [][\A i \in 1..Len(investments) :
          LET old == investments[i]
              new == investments'[i]
          IN /\ old.status # "harvested" /\ new.status = "harvested"
                 => /\ new.payoutAmount = (new.amount * new.roi) \div 100
                    /\ \E t \in transactions' :
                           /\ t.type = "payout"
                           /\ t.txHash = new.payoutTxHash
                           /\ t.amount = new.payoutAmount
                           /\ t.userId = new.investorWallet
             /\ old.status = "harvested" => payoutFields(new) = payoutFields(old)]_vars

\* C23: the status of an InvestmentRecord only moves forward along
\* active -> growing -> harvested.  No step takes a growing record back to
\* active or a harvested record to another status; an active record whose
\* progress becomes > 0 and < 100 becomes growing; a record is harvested
\* exactly when its progress is 100.
C23_StatusMovesForward ==
    [][\A i \in 1..Len(investments) :
          LET old == investments[i]
              new == investments'[i]
          IN /\ old.status = "growing" => new.status \in {"growing", "harvested"}
             /\ old.status = "harvested" => new.status = "harvested"
             /\ old.status = "active" /\ new.progress > 0 /\ new.progress < 100
                    => new.status = "growing"
             /\ new.status = "harvested" <=> new.progress = 100]_vars

\* C24: every Invest call uses one fresh correlation id for its contribution,
\* its InvestmentRecord and its "investment" ledger entry, and no other Invest
\* call's contribution, record or entry carries it: no two contributions, no
\* two InvestmentRecords and no two "investment" entries share a txHash.
C24_FreshIdPerInvest ==
    /\ \A i, j \in 1..Len(investments) :
           i # j => investments[i].txHash # investments[j].txHash
    /\ \A p, q \in Stored :
           \A i \in DOMAIN requests[p].investors, j \in DOMAIN requests[q].investors :
               <<p, i>> # <<q, j>>
                   => requests[p].investors[i].txHash # requests[q].investors[j].txHash
    /\ \A t, u \in transactions :
           t.type = "investment" /\ u.type = "investment" /\ t # u
               => t.txHash # u.txHash

\* C25: Cancel racing with Invest fails closed: in every reachable state the
\* project of every InvestmentRecord and of every "investment" ledger entry is
\* a stored request, not one that Cancel has removed.
C25_NoInvestmentInCancelledProject ==
    /\ \A i \in 1..Len(investments) : requests[investments[i].projectId] # Deleted
    /\ \A t \in transactions :
           t.type = "investment" => requests[t.projectId] # Deleted

\* C26: retrying a failed UpdateProgress(id, 100) until it succeeds leaves
\* exactly one "payout" ledger entry for the record: when a call with progress
\* 100 has run to its response, the ledger holds as many payout entries as
\* there are harvested records.
C26_RetryPaysOnce ==
    ProgressDone =>
        Payouts = Cardinality({i \in 1..Len(investments) :
                                  investments[i].status = "harvested"})

\* The project a worker's pending FundingRequest save is about.
savedProject(w) ==
    IF pc[w] = "C_save" THEN Len(requests) + 1 ELSE loc[w].p

C28_ProgressAndPutKeepFunding ==
    [][\A w \in Workers :
          (pc[w] \in {"U_payout", "U_note", "U_save", "U_check", "U_count", "U_find",
                      "U_complete", "P_notify", "P_save"} /\ pc'[w] # pc[w])
          => \A p \in 1..Len(requests) :
                (requests[p] # Deleted /\ requests'[p] # Deleted)
                => /\ requests'[p].fundedAmount = requests[p].fundedAmount
                   /\ requests'[p].investors = requests[p].investors]_vars

\* C29: investors are notified of a project update only if the update was
\* stored: when a PUT call has returned a failure, every "update" notification
\* addressed to an investor of its project belongs to an update that is in the
\* project's stored updates list.
C29_NoNoticeWithoutStoredUpdate ==
    (last.op = "put" /\ ~last.done /\ last.code >= 400 /\ "p" \in DOMAIN last
        /\ Present(last.p))
    => \A n \in notifications :
          (n.type = "update" /\ n.itemId = last.p /\ n.recipient \in Investors)
          => Len(requests[last.p].updates) > 0

\* The Purchase documents and the ledger entries of one kind of a listing.
purchasesOf(l) == {i \in 1..Len(purchases) : purchases[i].listingId = l}
entriesOf(l, type) == {t \in transactions : t.type = type /\ t.listingId = l}

\* C30: a listing is sold at most once: whatever the interleaving of the
\* purchase calls, a listing has at most one Purchase document, at most one
\* "purchase" ledger entry and at most one "sale" ledger entry.
C30_ListingSoldOnce ==
    \A l \in 1..Len(listings) :
        /\ Cardinality(purchasesOf(l)) <= 1
        /\ Cardinality(entriesOf(l, "purchase")) <= 1
        /\ Cardinality(entriesOf(l, "sale")) <= 1

====
